---- MODULE Spec2Model ----
(***************************************************************************)
(* Model of plugins/juju-metadata/toolsmetadata.go: the generate-tools     *)
(* command.  ToolsMetadataCommand.Run finds the tools of an environment,   *)
(* optionally fetches each one to compute its size and SHA-256, builds one *)
(* ToolsMetadata record per tool, marshals the records into an index and a *)
(* products document and puts both into the environment's storage.        *)
(*                                                                         *)
(* Strings the code inspects character by character (URL paths, hex        *)
(* digests, version strings) are sequences of one-character strings; the   *)
(* empty string is << >>.  Strings the code only passes around are TLA+    *)
(* strings.  External calls (environment, listener, discovery, HTTP,       *)
(* marshalling, storage) return nondeterministically chosen outcomes.      *)
(***************************************************************************)
EXTENDS Integers, Sequences, FiniteSets, TLC

VARIABLES
    fetch,        \* c.fetch
    metadataDir,  \* c.metadataDir ("" when not given)
    pc,           \* position of Run
    listener,     \* the localstorage listener: "none", "open", "closed"
    toolsList,    \* result of tools.FindTools
    i,            \* index of the candidate being processed (1-based)
    urlPath,      \* urlPath of the candidate being processed
    metadata,     \* the metadata slice; Nil where not yet assigned
    docs,         \* [index, products] returned by MarshalToolsMetadataJSON
    k,            \* index into objects (1-based)
    path,         \* the path printed by "Writing %s"
    storage,      \* objects put into env.Storage() by this run
    err,          \* the error Run returned
    resp,         \* what http.Get and the body reads did in the latest fetch
    fetched,      \* size, sha256hash, err as assigned from fetchToolsHash
    trace,        \* history: the external calls made, in order
    bodies,       \* history: per candidate, the bytes read from its response
    marshalInput  \* history: the argument of MarshalToolsMetadataJSON

vars == <<fetch, metadataDir, pc, listener, toolsList, i, urlPath, metadata,
          docs, k, path, storage, err, resp, fetched, trace, bodies,
          marshalInput>>

----------------------------------------------------------------------------
(* Bounds and input domains *)

MaxTools == 2

NoErr == "nil"
Nil == [nil |-> TRUE]                            \* a nil *tools.ToolsMetadata
NoObject == <<"absent">>                          \* no object at a storage path
NilDoc == << >>                                  \* a nil []byte
NoDocs == [index |-> NilDoc, products |-> NilDoc]
NoInput == [called |-> FALSE, arg |-> << >>]
NoBody == <<-1>>                                 \* no response body was read
NoFail == -1
NilHash == [h |-> -1]                            \* a nil hash.Hash

MetadataDirs == {"", "/tmp/out"}

\* pathPrefix + simplestreams.DefaultIndexPath + simplestreams.UnsignedSuffix
pathPrefix == "tools/"
IndexPath == pathPrefix \o "streams/v1/index" \o ".json"
\* pathPrefix + tools.ProductMetadataPath
ProductsPath == pathPrefix \o "streams/v1/com.ubuntu.juju:released:tools.json"

\* Retrieval URLs a storage backend can hand out.  A URL either does not parse
\* or parses to a path component.
ToolURLs ==
    { [text |-> "%zz", valid |-> FALSE, path |-> << >>],
      [text |-> "http://h", valid |-> TRUE, path |-> << >>],
      [text |-> "http://h/t", valid |-> TRUE, path |-> <<"/", "t">>],
      [text |-> "http://h//t", valid |-> TRUE, path |-> <<"/", "/", "t">>],
      [text |-> "t/u", valid |-> TRUE, path |-> <<"t", "/", "u">>] }

ToolVersions ==
    { [Series |-> "precise", Number |-> <<1, 2, 3>>, Arch |-> "amd64"],
      [Series |-> "raring", Number |-> <<1, 10, 0>>, Arch |-> "i386"] }

\* The candidates FindTools can return: every URL with the precise build, and
\* a second build at the well-formed URL.
Tools == { t \in [URL : ToolURLs, Version : ToolVersions] :
             t.Version.Series = "precise" \/ t.URL.text = "http://h/t" }

RECURSIVE SeqsUpTo(_, _)
SeqsUpTo(S, n) ==
    IF n = 0 THEN { << >> }
    ELSE LET shorter == SeqsUpTo(S, n - 1)
         IN  shorter \cup { Append(s, x) : s \in { t \in shorter : Len(t) = n - 1 }, x \in S }

ToolsLists == SeqsUpTo(Tools, MaxTools)

\* Response bodies: empty, one byte, two bytes.
Bodies == { << >>, <<0>>, <<1>>, <<1, 0>> }
Statuses == {200, 404}

\* What http.Get and the reads of resp.Body do: Get fails, or a response
\* arrives whose body delivers failAt bytes and then fails (NoFail: delivers
\* every byte and then EOF).
Responses ==
    { [getErr |-> TRUE, status |-> 0, body |-> << >>, failAt |-> NoFail] }
    \cup { [getErr |-> FALSE, status |-> s, body |-> b, failAt |-> f] :
             s \in Statuses, b \in Bodies, f \in {NoFail} \cup {0, 1} }

NoResponse == [getErr |-> FALSE, status |-> 0, body |-> << >>, failAt |-> NoFail]

ValidResponse(r) == r.failAt = NoFail \/ r.failAt <= Len(r.body)

StorageURLBases == {"http://a/", "http://b/"}
\* what env.Storage().URL returns
ResolveOutcomes == [url : StorageURLBases, err : {NoErr, "URLError"}]

----------------------------------------------------------------------------
(* Pure functions *)

Digits == <<"0", "1", "2", "3", "4", "5", "6", "7", "8", "9">>
HexDigits == <<"0", "1", "2", "3", "4", "5", "6", "7", "8", "9",
               "a", "b", "c", "d", "e", "f">>

\* strconv of a non-negative integer
RECURSIVE Itoa(_)
Itoa(n) == IF n < 10 THEN <<Digits[n + 1]>>
           ELSE Itoa(n \div 10) \o <<Digits[(n % 10) + 1]>>

\* version.Number.String(): major.minor.patch
NumberString(n) == Itoa(n[1]) \o <<".">> \o Itoa(n[2]) \o <<".">> \o Itoa(n[3])

\* url.Parse
UrlParse(u) == IF u.valid THEN [err |-> NoErr, Path |-> u.path]
               ELSE [err |-> "ParseError", Path |-> << >>]

\* u.Path[1:] is defined only for a non-empty Path
SliceInRange(p) == Len(p) >= 1
UrlPath(p) == SubSeq(p, 2, Len(p))

\* A one-byte stand-in for SHA-256 with the same streaming interface:
\* sha256.New(), Write and Sum.
Sha256New == [h |-> 106]
Sha256Write(s, b) == [h |-> (s.h * 31 + b + 1) % 256]
Sha256Sum(s) == <<s.h>>

RECURSIVE WriteAll(_, _)
WriteAll(s, bytes) ==
    IF bytes = << >> THEN s
    ELSE WriteAll(Sha256Write(s, Head(bytes)), Tail(bytes))

\* fmt.Sprintf("%x", bytes): two hex digits per byte
RECURSIVE Hex(_)
Hex(bytes) ==
    IF bytes = << >> THEN << >>
    ELSE <<HexDigits[(Head(bytes) \div 16) + 1], HexDigits[(Head(bytes) % 16) + 1]>>
         \o Hex(Tail(bytes))

\* io.Copy(sha256hash, resp.Body): the bytes delivered are written to the hash
Delivered(r) == IF r.failAt = NoFail THEN r.body ELSE SubSeq(r.body, 1, r.failAt)

FetchToolsHashNoWrite(r) ==
    IF r.getErr
    THEN [size |-> 0, hash |-> NilHash, err |-> "TransportError"]
    ELSE [size |-> Len(Delivered(r)),
          hash |-> Sha256New,
          err  |-> IF r.failAt = NoFail THEN NoErr ELSE "ReadError"]
FetchToolsHashChecksStatus(r) ==
    IF r.getErr
    THEN [size |-> 0, hash |-> NilHash, err |-> "TransportError"]
    ELSE IF r.status # 200
    THEN [size |-> 0, hash |-> NilHash, err |-> "StatusError"]
    ELSE [size |-> Len(Delivered(r)),
          hash |-> WriteAll(Sha256New, Delivered(r)),
          err  |-> IF r.failAt = NoFail THEN NoErr ELSE "ReadError"]
FetchToolsHash(r) ==
    IF r.getErr
    THEN [size |-> 0, hash |-> NilHash, err |-> "TransportError"]
    ELSE [size |-> Len(Delivered(r)),
          hash |-> WriteAll(Sha256New, Delivered(r)),
          err  |-> IF r.failAt = NoFail THEN NoErr ELSE "ReadError"]

\* tools.MarshalToolsMetadataJSON: both documents are built from the records
MarshalToolsMetadataJSON(m, ok) ==
    IF ok THEN [index |-> <<"index", m>>, products |-> <<"products", m>>, err |-> NoErr]
    ELSE [index |-> NilDoc, products |-> NilDoc, err |-> "EncodingError"]

\* the objects slice
ObjectsSwapped == << [path |-> ProductsPath, doc |-> "products"],
                     [path |-> IndexPath, doc |-> "index"] >>
Objects == << [path |-> IndexPath, doc |-> "index"],
              [path |-> ProductsPath, doc |-> "products"] >>
ObjectPaths == {IndexPath, ProductsPath}
EmptyStorage == [p \in ObjectPaths |-> NoObject]

ObjectData(o) == IF o.doc = "index" THEN docs.index ELSE docs.products

\* the tests `if err != nil` of Run
Failed(e) == e # NoErr

FetchFailedIgnored(e) == FALSE
FetchFailed(e) == e # NoErr

MarshalFailedIgnored(e) == FALSE
MarshalFailed(e) == e # NoErr

PutFailedIgnored(e) == FALSE
PutFailed(e) == e # NoErr

ResolveFailedOnAddress(r) == r.err # NoErr \/ r.url = "http://b/"
ResolveFailed(r) == r.err # NoErr

FindFailedIgnored(r) == FALSE
FindFailedOnEmpty(r) == r.err # NoErr \/ r.list = << >>
FindFailed(r) == r.err # NoErr

\* the test `if c.fetch`
FetchAlways == TRUE
FetchEnabled == fetch

\* the loop `for i, t := range toolsList` advances to the next candidate
SameIndex(n) == n
NextIndex(n) == n + 1

----------------------------------------------------------------------------
(* Run *)

Event(op, cand, obj, e) ==
    [op |-> op, cand |-> cand, obj |-> obj, ok |-> (e = NoErr), err |-> e]

\* return: the deferred listener.Close() runs
ReturnGeneric(e) ==
    /\ pc' = IF e = NoErr THEN "Done" ELSE "Failed"
    /\ err' = IF e = NoErr THEN NoErr ELSE "generate-tools failed"
    /\ listener' = IF listener = "open" THEN "closed" ELSE listener
ReturnNoClose(e) ==
    /\ pc' = IF e = NoErr THEN "Done" ELSE "Failed"
    /\ err' = e
    /\ listener' = listener
Return(e) ==
    /\ pc' = IF e = NoErr THEN "Done" ELSE "Failed"
    /\ err' = e
    /\ listener' = IF listener = "open" THEN "closed" ELSE listener

\* a run-time panic unwinds Run; deferred calls still run
Panic ==
    /\ pc' = "Panicked"
    /\ err' = "panic"
    /\ listener' = IF listener = "open" THEN "closed" ELSE listener

Continue(next) ==
    /\ pc' = next
    /\ UNCHANGED <<err, listener>>

\* where the candidate loop goes with index n
LoopOrMarshal(n, list) == IF n <= Len(list) THEN "Candidate" ELSE "Serializing"

Init ==
    /\ fetch \in BOOLEAN
    /\ metadataDir \in MetadataDirs
    /\ pc = "Init"
    /\ listener = "none"
    /\ toolsList = << >>
    /\ i = 1
    /\ urlPath = << >>
    /\ metadata = << >>
    /\ docs = NoDocs
    /\ k = 1
    /\ path = ""
    /\ storage = EmptyStorage
    /\ err = NoErr
    /\ resp = NoResponse
    /\ fetched = [size |-> 0, hash |-> NilHash, err |-> NoErr]
    /\ trace = << >>
    /\ bodies = << >>
    /\ marshalInput = NoInput

\* env, err := environs.NewFromName(c.EnvName)
NewFromName ==
    /\ pc = "Init"
    /\ \E e \in {NoErr, "EnvError"} :
        /\ trace' = Append(trace, Event("NewFromName", 0, "", e))
        /\ IF Failed(e) THEN Return(e)
           ELSE Continue(IF metadataDir # "" THEN "Serve" ELSE "Discovering")
    /\ UNCHANGED <<resp, fetched>>
    /\ UNCHANGED <<fetch, metadataDir, toolsList, i, urlPath, metadata, docs, k,
                   path, storage, bodies, marshalInput>>

\* listener, err := localstorage.Serve("127.0.0.1:0", c.metadataDir)
Serve ==
    /\ pc = "Serve"
    /\ \E e \in {NoErr, "ListenError"} :
        /\ trace' = Append(trace, Event("Serve", 0, "", e))
        /\ IF Failed(e) THEN Return(e)
           ELSE /\ pc' = "Discovering"
                /\ listener' = "open"
                /\ err' = err
    /\ UNCHANGED <<resp, fetched>>
    /\ UNCHANGED <<fetch, metadataDir, toolsList, i, urlPath, metadata, docs, k,
                   path, storage, bodies, marshalInput>>

\* toolsList, err := tools.FindTools(...); metadata := make(..., len(toolsList))
FindTools ==
    /\ pc = "Discovering"
    /\ \E r \in [list : ToolsLists, err : {NoErr, "DiscoveryError"}] :
        /\ trace' = Append(trace, Event("FindTools", 0, "", r.err))
        /\ toolsList' = r.list
        /\ IF FindFailed(r)
           THEN /\ Return(r.err)
                /\ UNCHANGED <<metadata, bodies>>
           ELSE /\ metadata' = [j \in 1..Len(r.list) |-> Nil]
                /\ bodies' = [j \in 1..Len(r.list) |-> NoBody]
                /\ Continue(LoopOrMarshal(1, r.list))
    /\ UNCHANGED <<resp, fetched>>
    /\ UNCHANGED <<fetch, metadataDir, i, urlPath, docs, k, path, storage,
                   marshalInput>>

\* the record built for candidate t
Record(t, p, size, sha256hex) ==
    [Release  |-> t.Version.Series,
     Version  |-> NumberString(t.Version.Number),
     Arch     |-> t.Version.Arch,
     Path     |-> p,
     FileType |-> "tar.gz",
     Size     |-> size,
     SHA256   |-> sha256hex]

\* metadata[i] = &tools.ToolsMetadata{...}, then the next iteration
StoreRecordAppend(rec) ==
    /\ metadata' = Append(metadata, rec)
    /\ i' = NextIndex(i)
    /\ Continue(LoopOrMarshal(NextIndex(i), toolsList))
StoreRecord(rec) ==
    /\ metadata' = [metadata EXCEPT ![i] = rec]
    /\ i' = NextIndex(i)
    /\ Continue(LoopOrMarshal(NextIndex(i), toolsList))

\* one iteration up to the fetch: url.Parse, u.Path[1:], `if c.fetch`
ParseURL ==
    /\ pc = "Candidate"
    /\ LET t == toolsList[i]
           u == UrlParse(t.URL)
       IN  /\ trace' = Append(trace, Event("Parse", i, "", u.err))
           /\ IF Failed(u.err)
              THEN /\ Return(u.err)
                   /\ UNCHANGED <<urlPath, metadata, i>>
              ELSE IF ~SliceInRange(u.Path)
              THEN /\ Panic
                   /\ UNCHANGED <<urlPath, metadata, i>>
              ELSE /\ urlPath' = UrlPath(u.Path)
                   /\ IF FetchEnabled
                      THEN /\ Continue("Hashing")
                           /\ UNCHANGED <<metadata, i>>
                      ELSE StoreRecord(Record(t, UrlPath(u.Path), 0, << >>))
    /\ UNCHANGED <<resp, fetched>>
    /\ UNCHANGED <<fetch, metadataDir, toolsList, docs, k, path, storage, bodies,
                   marshalInput>>

\* size, sha256hash, err = fetchToolsHash(t.URL) and the rest of the iteration
Fetch ==
    /\ pc = "Hashing"
    /\ \E r \in { x \in Responses : ValidResponse(x) } :
        LET res == FetchToolsHash(r)
        IN  /\ trace' = Append(trace, Event("fetchToolsHash", i, "", res.err))
            /\ bodies' = [bodies EXCEPT ![i] = IF r.getErr THEN NoBody ELSE r.body]
            /\ resp' = r
            /\ fetched' = res
            /\ IF FetchFailed(res.err)
               THEN /\ Return(res.err)
                    /\ UNCHANGED <<metadata, i>>
               ELSE IF res.hash = NilHash      \* sha256hash.Sum on a nil hash.Hash
               THEN /\ Panic
                    /\ UNCHANGED <<metadata, i>>
               ELSE StoreRecord(Record(toolsList[i], urlPath, res.size,
                                       Hex(Sha256Sum(res.hash))))
    /\ UNCHANGED <<fetch, metadataDir, toolsList, urlPath, docs, k, path, storage,
                   marshalInput>>

\* index, products, err := tools.MarshalToolsMetadataJSON(metadata)
Marshal ==
    /\ pc = "Serializing"
    /\ \E ok \in BOOLEAN :
        LET res == MarshalToolsMetadataJSON(metadata, ok)
        IN  /\ trace' = Append(trace, Event("Marshal", 0, "", res.err))
            /\ marshalInput' = [called |-> TRUE, arg |-> metadata]
            /\ IF MarshalFailed(res.err)
               THEN /\ Return(res.err)
                    /\ UNCHANGED docs
               ELSE /\ docs' = [index |-> res.index, products |-> res.products]
                    /\ Continue("Publishing")
    /\ UNCHANGED <<resp, fetched>>
    /\ UNCHANGED <<fetch, metadataDir, toolsList, i, urlPath, metadata, k, path,
                   storage, bodies>>

\* the first half of one iteration over objects: the path to print
ResolveAddress ==
    /\ pc = "Publishing"
    /\ LET object == Objects[k]
       IN  IF metadataDir # ""
           THEN /\ path' = metadataDir \o "/" \o object.path
                /\ trace' = trace
                /\ Continue("Putting")
           ELSE \E r \in ResolveOutcomes :
                   /\ trace' = Append(trace, Event("URL", 0, object.path, r.err))
                   /\ IF ResolveFailed(r)
                      THEN /\ Return(r.err)
                           /\ path' = path
                      ELSE /\ path' = r.url \o object.path
                           /\ Continue("Putting")
    /\ UNCHANGED <<resp, fetched>>
    /\ UNCHANGED <<fetch, metadataDir, toolsList, i, urlPath, metadata, docs, k,
                   storage, bodies, marshalInput>>

\* env.Storage().Put(object.path, buf, int64(buf.Len())), then the next object
Put ==
    /\ pc = "Putting"
    /\ LET object == Objects[k]
       IN  \E e \in {NoErr, "PutError"} :
            /\ trace' = Append(trace, Event("Put", 0, object.path, e))
            /\ storage' = IF e = NoErr
                          THEN [storage EXCEPT ![object.path] = ObjectData(object)]
                          ELSE storage
            /\ IF PutFailed(e)
               THEN /\ Return(e)
                    /\ k' = k
               ELSE /\ k' = k + 1
                    /\ IF k + 1 <= Len(Objects)
                       THEN Continue("Publishing")
                       ELSE Return(NoErr)
    /\ UNCHANGED <<resp, fetched>>
    /\ UNCHANGED <<fetch, metadataDir, toolsList, i, urlPath, metadata, docs, path,
                   bodies, marshalInput>>

Next ==
    \/ NewFromName
    \/ Serve
    \/ FindTools
    \/ ParseURL
    \/ Fetch
    \/ Marshal
    \/ ResolveAddress
    \/ Put

Spec == Init /\ [][Next]_vars

\* Every external call returns: Run is never stuck while a step is possible.
FairSpec == Spec /\ WF_vars(Next)

----------------------------------------------------------------------------
(* The loop over objects as a function of what the storage calls return:    *)
(* outs[n] holds the outcomes of URL and Put for objects[n].                *)

(* The result names the terminal state, the storage and the puts issued.     *)

PublishOutcomes == [1..Len(Objects) -> [res : ResolveOutcomes, put : {NoErr, "PutError"}]]

PutIssued(o) == [path |-> o.path, data |-> ObjectData(o)]

RECURSIVE PublishFrom(_, _, _)
PublishFrom(n, st, outs) ==
    IF n > Len(Objects) THEN [pc |-> "Done", storage |-> st, puts |-> << >>]
    ELSE IF metadataDir = "" /\ ResolveFailed(outs[n].res)
    THEN [pc |-> "Failed", storage |-> st, puts |-> << >>]
    ELSE IF PutFailed(outs[n].put)
    THEN [pc |-> "Failed", storage |-> st, puts |-> <<PutIssued(Objects[n])>>]
    ELSE LET rest == PublishFrom(n + 1,
                        [st EXCEPT ![Objects[n].path] = ObjectData(Objects[n])], outs)
         IN  [rest EXCEPT !.puts = <<PutIssued(Objects[n])>> \o @]

----------------------------------------------------------------------------
(* Vocabulary of the properties *)

Calls(op) == { n \in 1..Len(trace) : trace[n].op = op }
FailedCalls(op) == { n \in Calls(op) : ~trace[n].ok }
OkCalls(op) == { n \in Calls(op) : trace[n].ok }
Written(p) == storage[p] # NoObject
WrittenPaths == { p \in ObjectPaths : Written(p) }
LastCallFailed == trace # << >> /\ ~trace[Len(trace)].ok

----------------------------------------------------------------------------
(* C1: with fetch enabled, when the fetch or hash of a candidate fails the  *)
(* run is Failed with that error, MarshalToolsMetadataJSON has not been     *)
(* called, nothing has been put or written, and no candidate after the      *)
(* failing one has been parsed or fetched.                                  *)
C1_FetchFailureAborts ==
    \A n \in FailedCalls("fetchToolsHash") :
        /\ fetch
        /\ pc = "Failed"
        /\ err \in {"TransportError", "ReadError"}
        /\ n = Len(trace)
        /\ ~marshalInput.called
        /\ Calls("Marshal") = {}
        /\ Calls("Put") = {}
        /\ WrittenPaths = {}
        /\ \A m \in Calls("fetchToolsHash") \cup Calls("Parse") :
               trace[m].cand <= trace[n].cand
        /\ \A j \in trace[n].cand..Len(toolsList) : metadata[j] = Nil

\* the fetch of the first of two candidates has failed
C1_Witness ==
    /\ Len(toolsList) = 2
    /\ \E n \in FailedCalls("fetchToolsHash") : trace[n].cand = 1

(* C2: when MarshalToolsMetadataJSON fails the run is Failed and no Put has *)
(* been issued for either object; every Put comes after a successful        *)
(* Marshal of the complete record sequence (one record per candidate).      *)
C2_NoPutBeforeSerialized ==
    /\ \A n \in FailedCalls("Marshal") :
          /\ pc = "Failed"
          /\ err = "EncodingError"
          /\ Calls("Put") = {}
          /\ WrittenPaths = {}
    /\ \A n \in Calls("Put") :
          /\ \E m \in OkCalls("Marshal") : m < n
          /\ marshalInput.called
          /\ Len(marshalInput.arg) = Len(toolsList)
          /\ \A j \in 1..Len(toolsList) : marshalInput.arg[j] # Nil

\* serialization of a non-empty record sequence has failed
C2_Witness ==
    /\ FailedCalls("Marshal") # {}
    /\ Len(marshalInput.arg) = 2

(* C3: when Run has returned nil (Done) both the index and the products     *)
(* object have been written, with the documents of this run; when Run has   *)
(* returned an error (Failed) at most one of the two objects is written.    *)
C3_DoneBothFailedAtMostOne ==
    /\ pc = "Done" =>
          /\ err = NoErr
          /\ storage[IndexPath] = docs.index
          /\ storage[ProductsPath] = docs.products
          /\ WrittenPaths = ObjectPaths
          /\ Cardinality(OkCalls("Put")) = 2
    /\ pc = "Failed" =>
          /\ err # NoErr
          /\ Cardinality(WrittenPaths) <= 1

\* a run that wrote one object and then failed
C3_Witness ==
    /\ pc = "Failed"
    /\ Cardinality(WrittenPaths) = 1

(* The publish loop as a function agrees with the actions ResolveAddress    *)
(* and Put: every state reached once serialization succeeded is the result  *)
(* of some outcome of the storage calls.                                    *)
PublishAgrees ==
    (pc \in {"Done", "Failed"} /\ OkCalls("Marshal") # {}) =>
        \E o \in PublishOutcomes :
            LET r == PublishFrom(1, EmptyStorage, o)
            IN  /\ r.pc = pc
                /\ r.storage = storage
                /\ Len(r.puts) = Cardinality(Calls("Put"))
                /\ \A n \in 1..Len(r.puts) :
                       \E m \in Calls("Put") : trace[m].obj = r.puts[n].path

ProductsWithoutIndex(st) == st[ProductsPath] # NoObject /\ st[IndexPath] = NoObject
IndexWithoutProducts(st) == st[IndexPath] # NoObject /\ st[ProductsPath] = NoObject
PartialPublishPossible(P(_)) ==
    \E o \in PublishOutcomes :
        LET r == PublishFrom(1, storage, o)
        IN  r.pc = "Failed" /\ P(r.storage)

(* C4, as claimed: when publishing starts, a publish failure can leave       *)
(* either partial outcome: products written and index not, or index        *)
(* written and products not.                                                 *)
C4_BothPartialOutcomesPossible ==
    (pc = "Publishing" /\ k = 1) =>
        /\ PartialPublishPossible(ProductsWithoutIndex)
        /\ PartialPublishPossible(IndexWithoutProducts)

(* C4, amended: only one partial-publish outcome exists.  A publish failure *)
(* can leave the index written and the products not; no Failed state has    *)
(* the products written and the index not.                                  *)
C4_OnlyIndexWithoutProducts ==
    /\ pc = "Failed" => ~ProductsWithoutIndex(storage)
    /\ (pc = "Publishing" /\ k = 1) =>
          /\ PartialPublishPossible(IndexWithoutProducts)
          /\ ~PartialPublishPossible(ProductsWithoutIndex)

\* the put of the products object failed after the index object was written
C4_Witness ==
    /\ pc = "Failed"
    /\ IndexWithoutProducts(storage)
    /\ \E n \in FailedCalls("Put") : trace[n].obj = ProductsPath

(* C5: nothing is attempted twice.  FindTools and Marshal are called at     *)
(* most once, each candidate is parsed and fetched at most once, URL and    *)
(* Put are called at most once per object path, and a call that failed is   *)
(* the last call of the run, which is then Failed.                          *)
AtMostOnce(op) ==
    \A m, n \in Calls(op) :
        (trace[m].cand = trace[n].cand /\ trace[m].obj = trace[n].obj) => m = n
C5_NothingTwice ==
    /\ \A op \in {"NewFromName", "Serve", "FindTools", "Parse", "fetchToolsHash",
                  "Marshal", "URL", "Put"} : AtMostOnce(op)
    /\ \A n \in 1..Len(trace) :
          ~trace[n].ok => (n = Len(trace) /\ pc = "Failed")

\* two candidates fetched, both documents serialized, and the second put failed
C5_Witness ==
    /\ Cardinality(Calls("fetchToolsHash")) = 2
    /\ Cardinality(Calls("Put")) = 2
    /\ LastCallFailed

(* C6: with fetch disabled fetchToolsHash is never called, and every record *)
(* handed to MarshalToolsMetadataJSON has Size 0 and SHA256 "".             *)
C6_NoFetchNoHash ==
    ~fetch =>
        /\ Calls("fetchToolsHash") = {}
        /\ pc # "Hashing"
        /\ marshalInput.called =>
              \A j \in 1..Len(marshalInput.arg) :
                  /\ marshalInput.arg[j] # Nil
                  /\ marshalInput.arg[j].Size = 0
                  /\ marshalInput.arg[j].SHA256 = << >>

\* two records were serialized with fetch disabled
C6_Witness ==
    /\ ~fetch
    /\ marshalInput.called
    /\ Len(marshalInput.arg) = 2

(* C7: every record handed to MarshalToolsMetadataJSON has either Size 0    *)
(* and SHA256 "" (fetch disabled, nothing read), or (fetch enabled) Size    *)
(* the length of the body read and SHA256 the non-empty hex digest of       *)
(* exactly those Size bytes, a zero-length body included.                   *)
DigestOf(bytes) == Hex(Sha256Sum(WriteAll(Sha256New, bytes)))
C7_SizeAndHashConsistent ==
    marshalInput.called =>
        \A j \in 1..Len(marshalInput.arg) :
            LET r == marshalInput.arg[j]
            IN  /\ r # Nil
                /\ \/ /\ ~fetch
                      /\ bodies[j] = NoBody
                      /\ r.Size = 0
                      /\ r.SHA256 = << >>
                   \/ /\ fetch
                      /\ bodies[j] # NoBody
                      /\ r.Size = Len(bodies[j])
                      /\ r.SHA256 = DigestOf(SubSeq(bodies[j], 1, r.Size))
                      /\ r.SHA256 # << >>

\* a fetched artifact of zero bytes and one of two bytes were serialized
C7_Witness ==
    /\ fetch
    /\ marshalInput.called
    /\ Len(marshalInput.arg) = 2
    /\ bodies[1] = << >>
    /\ marshalInput.arg[1].Size = 0
    /\ marshalInput.arg[2].Size = 2

(* C8: the Path of every record stored in metadata has no leading path      *)
(* separator, for every candidate whose URL parses.                         *)
C8_NoLeadingSeparator ==
    \A j \in 1..Len(metadata) :
        metadata[j] # Nil =>
            (metadata[j].Path = << >> \/ Head(metadata[j].Path) # "/")

(* C9: when FindTools succeeds with no candidates the run does not fail for *)
(* that: no candidate step runs, Marshal is called on the empty sequence,   *)
(* only Marshal, URL or Put can fail the run, and when Marshal and both     *)
(* Puts succeeded the run is Done with both objects written.                *)
C9_EmptyDiscoveryPublishes ==
    (OkCalls("FindTools") # {} /\ toolsList = << >>) =>
        /\ pc \in {"Serializing", "Publishing", "Putting", "Done", "Failed"}
        /\ Calls("Parse") = {} /\ Calls("fetchToolsHash") = {}
        /\ pc # "Serializing" => (marshalInput.called /\ marshalInput.arg = << >>)
        /\ pc = "Failed" =>
              /\ LastCallFailed
              /\ trace[Len(trace)].op \in {"Marshal", "URL", "Put"}
        /\ (OkCalls("Marshal") # {} /\ Cardinality(OkCalls("Put")) = 2) =>
              /\ pc = "Done"
              /\ storage[IndexPath] = <<"index", << >> >>
              /\ storage[ProductsPath] = <<"products", << >> >>
        /\ pc = "Done" => Cardinality(OkCalls("Put")) = 2

\* a run over zero candidates that is Done
C9_Witness ==
    /\ OkCalls("FindTools") # {}
    /\ toolsList = << >>
    /\ pc = "Done"

(* C10: when FindTools fails the run is Failed with that error; nothing is  *)
(* parsed, fetched, serialized, put or written, whatever candidates the     *)
(* failed call returned.                                                    *)
C10_DiscoveryFailureAborts ==
    FailedCalls("FindTools") # {} =>
        /\ pc = "Failed"
        /\ err = "DiscoveryError"
        /\ LastCallFailed
        /\ Calls("Parse") = {} /\ Calls("fetchToolsHash") = {}
        /\ Calls("Marshal") = {} /\ ~marshalInput.called
        /\ Calls("URL") = {} /\ Calls("Put") = {}
        /\ WrittenPaths = {}
        /\ metadata = << >>

\* a failed discovery that nevertheless returned candidates
C10_Witness ==
    /\ FailedCalls("FindTools") # {}
    /\ Len(toolsList) = 2

(* C11, as claimed: two runs of the publish loop that differ only in what   *)
(* resolving one object's address returns (any address, or a failure) issue *)
(* the same puts with the same payloads and end in the same terminal state  *)
(* with the same storage.                                                   *)
C11_ResolutionNeverControlsFlow ==
    (pc = "Publishing" /\ k = 1) =>
        \A o \in PublishOutcomes, n \in 1..Len(Objects), r \in ResolveOutcomes :
            PublishFrom(1, storage, o) = PublishFrom(1, storage, [o EXCEPT ![n].res = r])

(* C11, amended: the address a successful resolution returns never changes  *)
(* the puts, their payloads or the terminal state, and in local-directory   *)
(* mode the storage is not asked for an address at all; but against remote  *)
(* storage a failed resolution ends the run Failed with that error before   *)
(* the put of that object.                                                  *)
C11_OnlyResolutionFailureControlsFlow ==
    /\ (pc = "Publishing" /\ k = 1) =>
          \A o \in PublishOutcomes, n \in 1..Len(Objects), r \in ResolveOutcomes :
              LET a == PublishFrom(1, storage, o)
                  b == PublishFrom(1, storage, [o EXCEPT ![n].res = r])
              IN  /\ (metadataDir # "" \/ (o[n].res.err = NoErr /\ r.err = NoErr)) => a = b
                  /\ (metadataDir = "" /\ r.err # NoErr) =>
                        (b.pc = "Failed" /\ Len(b.puts) < n)
    /\ metadataDir # "" => Calls("URL") = {}
    /\ \A m \in FailedCalls("URL") :
          /\ pc = "Failed"
          /\ err = "URLError"
          /\ m = Len(trace)
          /\ \A q \in Calls("Put") : trace[q].obj # trace[m].obj
    /\ \A m \in OkCalls("URL") : m < Len(trace) => trace[m + 1].op = "Put"

\* resolving the address of the products object failed after the index was put
C11_Witness ==
    /\ pc = "Failed"
    /\ Written(IndexPath)
    /\ \E m \in FailedCalls("URL") : trace[m].obj = ProductsPath

(* C12: when the read of the response body fails partway, fetchToolsHash   *)
(* returns an error with no digest object and no byte count beside it, and  *)
(* no record is built for that candidate.                                   *)
ReadFailed == Calls("fetchToolsHash") # {} /\ ~resp.getErr /\ resp.failAt # NoFail
C12_NoDigestWithError ==
    ReadFailed =>
        /\ fetched.err # NoErr
        /\ fetched.hash = NilHash
        /\ fetched.size = 0
        /\ metadata[i] = Nil

(* The part of C12 the code keeps: a failed read fails the run and no       *)
(* record is built from the bytes read so far.                              *)
C12_NoRecordFromPartialData ==
    ReadFailed =>
        /\ fetched.err = "ReadError"
        /\ pc = "Failed" /\ err = "ReadError"
        /\ metadata[i] = Nil
        /\ ~marshalInput.called

(* C13: a Failed run reports exactly the error of the first call that      *)
(* failed (NewFromName, Serve, FindTools, url.Parse, fetchToolsHash,        *)
(* Marshal, URL or Put), and a Done run reports no error and had no failed  *)
(* call.                                                                    *)
AllFailedCalls == { n \in 1..Len(trace) : ~trace[n].ok }
FirstFailedCall == CHOOSE n \in AllFailedCalls : \A m \in AllFailedCalls : n <= m
C13_FirstErrorVerbatim ==
    /\ pc = "Failed" =>
          /\ AllFailedCalls # {}
          /\ err # NoErr
          /\ err = trace[FirstFailedCall].err
    /\ pc = "Done" => (err = NoErr /\ AllFailedCalls = {})
    /\ AllFailedCalls # {} => pc = "Failed"

\* the read of the second candidate's body failed and Run reported that error
C13_Witness ==
    /\ pc = "Failed"
    /\ err = "ReadError"
    /\ trace[Len(trace)].op = "fetchToolsHash"
    /\ trace[Len(trace)].cand = 2

(* C14: a listener exists only in local-directory mode; once Serve has      *)
(* started it, it stays open while Run is running, so every put is made     *)
(* while it is open, and it is closed in every state in which Run has       *)
(* ended, after which nothing more is done.                                 *)
Ended == pc \in {"Done", "Failed", "Panicked"}
C14_ListenerClosedOnExit ==
    /\ listener # "none" => (metadataDir # "" /\ OkCalls("Serve") # {})
    /\ (OkCalls("Serve") # {} /\ Ended) => listener = "closed"
    /\ (OkCalls("Serve") # {} /\ ~Ended) => listener = "open"
    /\ listener = "closed" => (Ended /\ ~ENABLED Next)
    /\ pc \in {"Publishing", "Putting"} /\ metadataDir # "" => listener = "open"

\* in local-directory mode the second put failed and the listener is closed
C14_Witness ==
    /\ listener = "closed"
    /\ pc = "Failed"
    /\ Written(IndexPath)
    /\ Cardinality(Calls("Put")) = 2

(* C15: candidates are processed one at a time in discovery order.  While  *)
(* candidate i is being parsed or fetched, the records of candidates 1..i-1 *)
(* are stored and no later record is; the n-th call of fetchToolsHash is    *)
(* for candidate n, and while a fetch is in progress every earlier fetch    *)
(* has returned; the sequence handed to Marshal has one record per          *)
(* candidate, record j built from candidate j.                              *)
FetchesUpTo(n) == { m \in Calls("fetchToolsHash") : m <= n }
BuiltFrom(rec, t) ==
    /\ rec # Nil
    /\ rec.Release = t.Version.Series
    /\ rec.Version = NumberString(t.Version.Number)
    /\ rec.Arch = t.Version.Arch
    /\ rec.Path = UrlPath(UrlParse(t.URL).Path)
    /\ rec.FileType = "tar.gz"
C15_OneAtATimeInOrder ==
    /\ pc \in {"Candidate", "Hashing"} =>
          /\ i \in 1..Len(toolsList)
          /\ Len(metadata) = Len(toolsList)
          /\ \A j \in 1..(i - 1) : BuiltFrom(metadata[j], toolsList[j])
          /\ \A j \in i..Len(toolsList) : metadata[j] = Nil
    /\ pc = "Hashing" => Cardinality(Calls("fetchToolsHash")) = i - 1
    /\ pc # "Hashing" =>
          Cardinality(Calls("fetchToolsHash")) =
              Cardinality({ n \in OkCalls("Parse") : fetch /\ toolsList[trace[n].cand].URL.path # << >> })
    /\ \A n \in Calls("fetchToolsHash") :
          /\ trace[n].cand = Cardinality(FetchesUpTo(n))
          /\ \A j \in 1..(trace[n].cand - 1) : metadata[j] # Nil
    /\ marshalInput.called =>
          /\ Len(marshalInput.arg) = Len(toolsList)
          /\ \A j \in 1..Len(toolsList) : BuiltFrom(marshalInput.arg[j], toolsList[j])

\* two different candidates were fetched and their records serialized in order
C15_Witness ==
    /\ fetch
    /\ marshalInput.called
    /\ Len(toolsList) = 2
    /\ toolsList[1].Version.Series = "precise"
    /\ toolsList[2].Version.Series = "raring"
    /\ marshalInput.arg[2].Version = <<"1", ".", "1", "0", ".", "0">>
    /\ marshalInput.arg[1].Path = <<"/", "t">>

(* C16: Run is a linear state machine.  Its parts are stated one by one.   *)
Phase(p) ==
    CASE p \in {"Init", "Serve"}          -> 0
      [] p = "Discovering"                -> 1
      [] p \in {"Candidate", "Hashing"}   -> 2
      [] p = "Serializing"                -> 3
      [] p \in {"Publishing", "Putting"}  -> 4
      [] OTHER                            -> 5

\* the phase index never decreases, and inside the two loops the index of
\* the candidate and of the object never decreases either
C16_PhaseNeverDecreases ==
    [][/\ Phase(pc') >= Phase(pc)
       /\ i' >= i /\ k' >= k
       /\ (pc = "Hashing" /\ pc' = "Candidate") => i' > i
       /\ (pc = "Putting" /\ pc' = "Publishing") => k' > k]_vars

\* Done and Failed are terminal
C16_DoneFailedTerminal == pc \in {"Done", "Failed"} => ~ENABLED Next

\* a failure is possible at once wherever an external call is about to be made
C16_FailedPossible ==
    (pc \in {"Init", "Serve", "Discovering", "Hashing", "Serializing", "Putting"}
       \/ (pc = "Publishing" /\ metadataDir = "")
       \/ (pc = "Candidate" /\ ~toolsList[i].URL.valid))
    => ENABLED (Next /\ pc' = "Failed")

\* under FairSpec every run ends
C16_EventuallyEnds == <>Ended

(* C16, the part that fails: a run that can take no further step has ended  *)
(* in Done or Failed.                                                       *)
C16_EndsDoneOrFailed == ENABLED Next \/ pc \in {"Done", "Failed"}

(* C17: the puts are issued index first, products second; the put of the   *)
(* products object is issued only after the put of the index object has     *)
(* succeeded, so the products object is never in storage without the index. *)
C17_IndexBeforeProducts ==
    /\ \A n \in Calls("Put") :
          trace[n].obj = ProductsPath =>
              \E m \in OkCalls("Put") : m < n /\ trace[m].obj = IndexPath
    /\ \A n \in Calls("Put") :
          trace[n].obj = IndexPath => \A m \in Calls("Put") : n <= m
    /\ pc = "Putting" => (k = 1 <=> ~Written(IndexPath))
    /\ Written(ProductsPath) => Written(IndexPath)

\* both puts were issued and succeeded, the index first
C17_Witness ==
    /\ Written(ProductsPath)
    /\ Cardinality(OkCalls("Put")) = 2
    /\ \E m, n \in OkCalls("Put") :
          m < n /\ trace[m].obj = IndexPath /\ trace[n].obj = ProductsPath

(* C18: path derivation is total over URLs that parse: Run never ends       *)
(* outside Done and Failed, and a candidate whose URL parsed either gets a  *)
(* record (or is being fetched) or the run is Failed.                       *)
C18_PathDerivationTotal ==
    /\ pc # "Panicked"
    /\ \A n \in OkCalls("Parse") :
          \/ metadata[trace[n].cand] # Nil
          \/ pc = "Hashing" /\ i = trace[n].cand
          \/ pc = "Failed"

(* C19: fetchToolsHash fails only when http.Get fails or the read of the   *)
(* body fails.  A response of any status whose body is read to the end is   *)
(* content: the candidate's record has the length and the digest of that    *)
(* body, and the run goes on (it is not Failed by this call).               *)
LatestFetch == CHOOSE n \in Calls("fetchToolsHash") :
                   \A m \in Calls("fetchToolsHash") : m <= n
C19_AnyStatusIsContent ==
    Calls("fetchToolsHash") # {} =>
        LET n == LatestFetch
            c == trace[n].cand
        IN  /\ fetched.err = trace[n].err
            /\ trace[n].ok <=> (~resp.getErr /\ resp.failAt = NoFail)
            /\ ~trace[n].ok =>
                  /\ trace[n].err = IF resp.getErr THEN "TransportError" ELSE "ReadError"
                  /\ pc = "Failed"
            /\ trace[n].ok =>
                  /\ resp.status \in Statuses
                  /\ metadata[c] # Nil
                  /\ metadata[c].Size = Len(resp.body)
                  /\ metadata[c].SHA256 = DigestOf(resp.body)
                  /\ pc \in {"Candidate", "Hashing", "Serializing", "Publishing",
                             "Putting", "Done", "Failed", "Panicked"}
                  /\ pc = "Failed" => (LastCallFailed /\ Len(trace) > n)
                  /\ n = Len(trace) => pc \in {"Candidate", "Serializing"}

\* a 404 response with a two-byte body was hashed and the run published both documents
C19_Witness ==
    /\ pc = "Done"
    /\ Calls("fetchToolsHash") # {}
    /\ resp.status = 404
    /\ Len(resp.body) = 2
    /\ metadata[Len(metadata)].Size = 2

====
